---- MODULE Spec2Model ----
(***************************************************************************)
(* Field binding (useField), the field value store it dispatches to, and   *)
(* the document info provider (DocumentInfoProvider.getVersions).          *)
(*                                                                         *)
(* JavaScript values are encoded as strings: "true"/"false" are the        *)
(* booleans, "undefined", "null" and "0" the falsy non-booleans, "" the    *)
(* empty string, and every other string is itself.                         *)
(***************************************************************************)
EXTENDS Integers, Sequences, FiniteSets, TLC

VARIABLES
  fields,            \* the field value store: path -> FieldState
  modified,          \* form context: useFormModified()
  submitted,         \* form context: useFormSubmitted()
  env,               \* [id, user, operation] as read by the hooks of useField
  props,             \* per binding: the options [validate, condition]
  rendered,          \* per binding: the values captured by the last render
  result,            \* per binding: the memoized object useField returns
  effect,            \* per binding: the values the throttled effect captured
  sinceChange,       \* per binding: ms since a validation dependency changed
  timer,             \* per binding: ms elapsed on the pending timer, -1 = none
  runs,              \* validateField calls awaiting their validate promise
  setModifiedCalls,  \* number of calls of setModified(true) so far
  nEvents,           \* number of external events so far
  mounted,           \* the paths whose binding is mounted
  last               \* the last handler that ran against the store

VARIABLES
  docProps,            \* props of the provider: [kind, slug, id, versionsEnabled]
  docMounted,          \* the provider instance is mounted
  instance,            \* number of the provider instance (1 = first mount)
  publishedDoc,        \* useState: the published snapshot
  versions,            \* useState: the version list
  unpublishedVersions, \* useState: the versions newer than the snapshot
  calls,               \* getVersions calls suspended on a fetch
  nCalls,              \* number of getVersions calls so far
  fetchCount,          \* number of fetches issued so far
  docLast,             \* the last step of a getVersions call
  batching,            \* the React root batches state updates made after an await
  preferencesKey,      \* the preference key computed by the last render
  getPreferenceArg     \* the key the effect passed to getPreference last

VARIABLES
  rtValue,             \* the value useField returns for the rich text field
  rtInitialValue,      \* the initialValue useField returns
  readOnly,            \* admin.readOnly
  loaded,              \* useState: loaded
  initialValueKey,     \* useState: initialValueKey
  editor,              \* the editor object of the useMemo of lines 275-290;
                       \* ref tells which object editor.children is
  subtree,             \* the mounted div of line 350: its key and instance
  controls,            \* attributes of the buttons and links of the subtree
  handed,              \* the value the last render passed to Slate
  rtMounted,           \* the component is mounted
  nInputs,             \* number of clicks and key presses so far
  nChanges,            \* number of changes of props and store values so far
  rtLast               \* the last step of the rich text field

richVars == <<rtValue, rtInitialValue, readOnly, loaded, initialValueKey, editor,
              subtree, controls, handed, rtMounted, nInputs, nChanges, rtLast>>

docVars == <<docProps, docMounted, instance, publishedDoc, versions,
             unpublishedVersions, calls, nCalls, fetchCount, docLast,
             batching, preferencesKey, getPreferenceArg>>

formVars == <<fields, modified, submitted, env, props, rendered, result, effect,
              sinceChange, timer, runs, setModifiedCalls, nEvents, mounted,
              last>>

----------------------------------------------------------------------------
vars == <<formVars, docVars, richVars>>

----------------------------------------------------------------------------
(* Bounds *)

MaxEvents == 2       \* external events (setValue calls, prop changes)
TickMs == 75         \* granularity of the clock
MaxCalls == 2        \* getVersions calls
MaxMounts == 2       \* provider instances
MaxInputs == 2       \* clicks and key presses in the rich text editor
MaxChanges == 2      \* changes of the props and store values of the rich text field

(* Program constants *)

Delay == 150         \* useThrottledEffect(..., 150, deps)

----------------------------------------------------------------------------
(* Domains *)

Paths == {"title", "slug"}

\* arguments of setValue: raw values and event-like objects {target: {value}}
RawValues == {"", "a"}
Events == {"evB"}
Inputs == RawValues \cup Events

\* the validate option: "none" is not a function, "f", "g" and "h" are
\* validation functions
Validators == {"none", "f", "g", "h"}

\* the ways a validation function fails: it throws when it is called, or the
\* promise it returns rejects
Failures == {"throws", "rejects"}

\* what the validation functions return for a value: f is a required-field
\* check that answers with a message, true or false; g answers with another
\* message, with nothing at all (undefined) or with true; h fails, at once on
\* the empty value and through its promise on any other
ValidateFn(validate, value) ==
  IF validate = "f"
  THEN (IF value = "" THEN "E1" ELSE IF value = "a" THEN "true" ELSE "false")
  ELSE IF validate = "h"
  THEN (IF value = "" THEN "throws" ELSE "rejects")
  ELSE (IF value = "" THEN "E2" ELSE IF value = "a" THEN "undefined" ELSE "true")
Conditions == {"none", "c"}
Ids == {"42", "43"}
Users == {"u1", "u2"}
Operations == {"create", "update"}

InitialValue == ""

Min(a, b) == IF a < b THEN a ELSE b

----------------------------------------------------------------------------
(* JavaScript helpers *)

TypeOf(x) ==
  IF x \in {"true", "false"} THEN "boolean"
  ELSE IF x = "undefined" THEN "undefined"
  ELSE IF x = "null" THEN "object"
  ELSE IF x = "0" THEN "number"
  ELSE IF x \in Events THEN "object"
  ELSE "string"

Truthy(x) == x \notin {"false", "undefined", "null", "0", ""}

\* e.target of an argument of setValue
HasTarget(e) == e \in Events

\* e.target.value
TargetValue(e) == IF e = "evB" THEN "b" ELSE "undefined"

----------------------------------------------------------------------------
(* The store *)

\* An UPDATE action; hasValid tells the validation shape from the value shape
ValueAction(p, v) ==
  [path |-> p, value |-> v, hasValid |-> FALSE,
   valid |-> "undefined", errorMessage |-> "undefined"]

ValidationAction(p, v, valid, msg) ==
  [path |-> p, value |-> v, hasValid |-> TRUE,
   valid |-> valid, errorMessage |-> msg]

\* the reducer behind dispatchField: an UPDATE merges the keys the action
\* carries into the FieldState of action.path
DispatchField(state, action) ==
  [state EXCEPT ![action.path] =
     [value |-> action.value,
      initialValue |-> @.initialValue,
      valid |-> IF action.hasValid THEN action.valid ELSE @.valid,
      errorMessage |-> IF action.hasValid THEN action.errorMessage
                       ELSE @.errorMessage]]

----------------------------------------------------------------------------
(* useField: derived values *)

\* const valid = typeof field?.valid === 'boolean' ? field.valid : true
Valid(field) == IF TypeOf(field.valid) = "boolean" THEN field.valid ELSE "true"

\* showError without the submitted gate
ShowError_NoSubmit(field, formSubmitted) == Valid(field) = "false"

\* const showError = valid === false && submitted
ShowError(field, formSubmitted) == Valid(field) = "false" /\ formSubmitted

\* the argument taken as the value, whatever it is
ExtractValue_Raw(e) == e

\* const val = (e && e.target) ? e.target.value : e
ExtractValue(e) == IF Truthy(e) /\ HasTarget(e) THEN TargetValue(e) ELSE e

\* what a render of the binding of p captures now
Current(p) ==
  [value |-> fields[p].value,
   initialValue |-> fields[p].initialValue,
   fieldValid |-> fields[p].valid,
   errorMessage |-> fields[p].errorMessage,
   valid |-> Valid(fields[p]),
   showError |-> ShowError(fields[p], submitted),
   modified |-> modified,
   submitted |-> submitted,
   validate |-> props[p].validate,
   condition |-> props[p].condition,
   id |-> env.id,
   user |-> env.user,
   operation |-> env.operation]

\* the object useField returns (lines 61-69)
ResultOf(c) ==
  [showError |-> c.showError, errorMessage |-> c.errorMessage,
   value |-> c.value, formSubmitted |-> c.submitted,
   initialValue |-> c.initialValue]

\* the dependency array of the useMemo of the result: field, setValue (which
\* changes with modified), showError, submitted, value, initialValue
MemoDeps(c) ==
  <<c.value, c.initialValue, c.fieldValid, c.errorMessage, c.modified,
    c.showError, c.submitted>>

\* the values the callback of the throttled effect closes over
EffectClosure(c) ==
  [value |-> c.value, valid |-> c.valid, validate |-> c.validate,
   condition |-> c.condition, id |-> c.id, user |-> c.user,
   operation |-> c.operation]

\* a dependency array that leaves out value
Deps_NoValue(c) == <<c.condition, c.id, c.operation, c.user, c.validate, c.valid>>

\* the dependency array of the throttled effect
Deps(c) == <<c.value, c.condition, c.id, c.operation, c.user, c.validate, c.valid>>

\* the dependency set the validation schedule is keyed by
DependencySet(c) == <<c.value, c.condition, c.validate, c.id, c.user, c.operation>>

RenderPending == \E p \in mounted : rendered[p] # Current(p)

NoHandler ==
  [op |-> "none", path |-> "", arg |-> "", flag |-> FALSE, result |-> "",
   dispatched |-> FALSE, stale |-> FALSE, calledSetModified |-> FALSE,
   rejected |-> FALSE]

----------------------------------------------------------------------------
(* Initial state: the bindings are mounted and their effects armed the timer *)

InitField ==
  [value |-> InitialValue, initialValue |-> InitialValue,
   valid |-> "true", errorMessage |-> "undefined"]

InitForm(paths) ==
  /\ fields = [p \in Paths |-> InitField]
  /\ modified = FALSE
  /\ submitted = FALSE
  /\ env = [id |-> "42", user |-> "u1", operation |-> "create"]
  /\ props = [p \in Paths |->
                [validate |-> IF p = "title" THEN "f" ELSE "none",
                 condition |-> "none"]]
  /\ rendered = [p \in Paths |-> Current(p)]
  /\ result = [p \in Paths |-> ResultOf(Current(p))]
  /\ effect = [p \in Paths |-> EffectClosure(Current(p))]
  /\ sinceChange = [p \in Paths |-> 0]
  /\ mounted = paths
  /\ timer = [p \in Paths |-> IF p \in paths THEN 0 ELSE -1]
  /\ runs = <<>>
  /\ setModifiedCalls = 0
  /\ nEvents = 0
  /\ last = NoHandler

----------------------------------------------------------------------------
(* setValue *)

SetValue(p, e, disableModifyingForm) ==
  LET val == ExtractValue(e)
      callsSetModified == ~rendered[p].modified /\ ~disableModifyingForm
  IN /\ nEvents < MaxEvents
     /\ nEvents' = nEvents + 1
     /\ modified' = (IF callsSetModified THEN TRUE ELSE modified)
     /\ setModifiedCalls' = setModifiedCalls + (IF callsSetModified THEN 1 ELSE 0)
     /\ fields' = DispatchField(fields, ValueAction(p, val))
     /\ last' = [NoHandler EXCEPT !.op = "setValue", !.path = p, !.arg = e,
                   !.flag = disableModifyingForm,
                   !.dispatched = TRUE,
                   !.calledSetModified = callsSetModified]
     /\ UNCHANGED <<submitted, env, props, rendered, result, effect, sinceChange,
                    timer, runs, mounted, docVars, richVars>>

----------------------------------------------------------------------------
(* Rendering and the throttled effect *)

\* A render of the form: every mounted binding captures the current values,
\* recomputes the memoized result when its dependencies changed, and an effect
\* whose dependencies changed clears its timer and arms a new one
Render ==
  /\ RenderPending
  /\ rendered' = [p \in Paths |->
                    IF p \in mounted THEN Current(p) ELSE rendered[p]]
  /\ result' = [p \in Paths |->
                  IF p \in mounted /\ MemoDeps(Current(p)) # MemoDeps(rendered[p])
                  THEN ResultOf(Current(p)) ELSE result[p]]
  /\ effect' = [p \in Paths |->
                  IF p \in mounted /\ Deps(Current(p)) # Deps(effect[p])
                  THEN EffectClosure(Current(p)) ELSE effect[p]]
  /\ timer' = [p \in Paths |->
                 IF p \in mounted /\ Deps(Current(p)) # Deps(effect[p])
                 THEN 0 ELSE timer[p]]
  /\ sinceChange' = [p \in Paths |->
                       IF p \in mounted
                          /\ DependencySet(Current(p)) # DependencySet(rendered[p])
                       THEN 0 ELSE sinceChange[p]]
  /\ UNCHANGED <<fields, modified, submitted, env, props, runs,
                 setModifiedCalls, nEvents, last, mounted, docVars, richVars>>

\* time passes; a pending render is done before the event loop runs a timer
\* or a promise continuation, so those steps wait for it
Tick ==
  /\ ~RenderPending
  /\ \E p \in mounted : timer[p] >= 0 /\ timer[p] < Delay
  /\ timer' = [p \in Paths |->
                 IF timer[p] >= 0 /\ timer[p] < Delay
                 THEN Min(timer[p] + TickMs, Delay) ELSE timer[p]]
  /\ sinceChange' = [p \in Paths |->
                       IF p \in mounted
                       THEN Min(sinceChange[p] + TickMs, Delay)
                       ELSE sinceChange[p]]
  /\ UNCHANGED <<fields, modified, submitted, env, props, rendered, result,
                 effect, runs, setModifiedCalls, nEvents, last, mounted,
                 docVars, richVars>>

----------------------------------------------------------------------------
(* validateField *)

\* lines 95-101: a string is the error message of an invalid field, anything
\* else is stored as action.valid with no message
Classify(validationResult) ==
  IF TypeOf(validationResult) = "string"
  THEN [valid |-> "false", errorMessage |-> validationResult]
  ELSE [valid |-> validationResult, errorMessage |-> "undefined"]

\* a result that is compared and then dropped
Commit_Never(state, p, value, valid, validationResult) == state

\* lines 74-83 and 103-105: the action built from the values the run captured,
\* dispatched when its validity differs from the captured valid
Commit(state, p, value, valid, validationResult) ==
  LET c == Classify(validationResult)
      action == ValidationAction(p, value, c.valid, c.errorMessage)
  IN IF action.valid # valid THEN DispatchField(state, action) ELSE state

Dispatches(valid, validationResult) == Classify(validationResult).valid # valid

\* a validateField call starts for p: the calls of p still awaiting their
\* validate promise are superseded from now on
Supersede(rs, p) ==
  [i \in 1..Len(rs) |->
     IF rs[i].path = p THEN [rs[i] EXCEPT !.superseded = TRUE] ELSE rs[i]]

\* the timer of the throttled effect elapsed and validate is not a function:
\* validateField runs to its end without suspending, with the result true
ValidateFieldSync(p) ==
  LET c == effect[p]
  IN /\ ~RenderPending
     /\ timer[p] >= Delay
     /\ c.validate = "none"
     /\ timer' = [timer EXCEPT ![p] = -1]
     /\ runs' = Supersede(runs, p)
     /\ fields' = Commit(fields, p, c.value, c.valid, "true")
     /\ last' = [NoHandler EXCEPT !.op = "validate", !.path = p,
                   !.result = "true",
                   !.dispatched = Dispatches(c.valid, "true")]
     /\ UNCHANGED <<modified, submitted, env, props, rendered, result, effect,
                    sinceChange, setModifiedCalls, nEvents, mounted, docVars, richVars>>

\* a failure of validate caught where it is awaited, and the field committed
\* as invalid
Rejected_Caught(state, p, value, valid) == Commit(state, p, value, valid, "false")

\* line 93: the await throws, lines 95-105 do not run and the promise of
\* validateField rejects; nothing is dispatched
Rejected(state, p, value, valid) == state

\* the timer elapsed and validate is a function that throws when it is called:
\* the promise of validateField rejects at once, and line 108 does not handle
\* the rejection
ValidateFieldThrows(p) ==
  LET c == effect[p]
  IN /\ ~RenderPending
     /\ timer[p] >= Delay
     /\ c.validate # "none"
     /\ ValidateFn(c.validate, c.value) = "throws"
     /\ timer' = [timer EXCEPT ![p] = -1]
     /\ runs' = Supersede(runs, p)
     /\ fields' = Rejected(fields, p, c.value, c.valid)
     /\ last' = [NoHandler EXCEPT !.op = "validate", !.path = p,
                   !.result = "throws", !.rejected = TRUE]
     /\ UNCHANGED <<modified, submitted, env, props, rendered, result, effect,
                    sinceChange, setModifiedCalls, nEvents, mounted, docVars,
                    richVars>>

\* the timer elapsed and validate is a function: validateField calls it with
\* the captured value and suspends on the await
ValidateFieldAwait(p) ==
  LET c == effect[p]
  IN /\ ~RenderPending
     /\ timer[p] >= Delay
     /\ c.validate # "none"
     /\ ValidateFn(c.validate, c.value) # "throws"
     /\ timer' = [timer EXCEPT ![p] = -1]
     /\ runs' = Append(Supersede(runs, p),
                       [path |-> p, value |-> c.value, valid |-> c.valid,
                        validationResult |-> ValidateFn(c.validate, c.value),
                        superseded |-> FALSE])
     /\ UNCHANGED <<fields, modified, submitted, env, props, rendered, result,
                    effect, sinceChange, setModifiedCalls, nEvents, last,
                    mounted, docVars, richVars>>

RemoveAt(seq, i) == SubSeq(seq, 1, i - 1) \o SubSeq(seq, i + 1, Len(seq))

\* the validate promise of the i-th suspended call resolves
ValidateFieldResolved(i) ==
  LET run == runs[i]
  IN /\ ~RenderPending
     /\ run.validationResult \notin Failures
     /\ runs' = RemoveAt(runs, i)
     /\ fields' = Commit(fields, run.path, run.value, run.valid,
                         run.validationResult)
     /\ last' = [NoHandler EXCEPT !.op = "validate", !.path = run.path,
                   !.result = run.validationResult,
                   !.dispatched = Dispatches(run.valid, run.validationResult),
                   !.stale = run.superseded]
     /\ UNCHANGED <<modified, submitted, env, props, rendered, result, effect,
                    sinceChange, timer, setModifiedCalls, nEvents, mounted,
                    docVars, richVars>>

\* the validate promise of the i-th suspended call rejects
ValidateFieldRejected(i) ==
  LET run == runs[i]
  IN /\ ~RenderPending
     /\ run.validationResult = "rejects"
     /\ runs' = RemoveAt(runs, i)
     /\ fields' = Rejected(fields, run.path, run.value, run.valid)
     /\ last' = [NoHandler EXCEPT !.op = "validate", !.path = run.path,
                   !.result = "rejects", !.rejected = TRUE,
                   !.stale = run.superseded]
     /\ UNCHANGED <<modified, submitted, env, props, rendered, result, effect,
                    sinceChange, timer, setModifiedCalls, nEvents, mounted,
                    docVars, richVars>>

----------------------------------------------------------------------------
(* The environment of the binding *)

\* the form is submitted
Submit ==
  /\ ~submitted
  /\ submitted' = TRUE
  /\ UNCHANGED <<fields, modified, env, props, rendered, result, effect, sinceChange, timer, runs,
                 setModifiedCalls, nEvents, last, mounted, docVars, richVars>>

\* the component passes another validate function
ChangeValidate(p, v) ==
  /\ nEvents < MaxEvents
  /\ v # props[p].validate
  /\ nEvents' = nEvents + 1
  /\ props' = [props EXCEPT ![p].validate = v]
  /\ UNCHANGED <<fields, modified, submitted, env, rendered, result, effect, sinceChange, timer, runs,
                 setModifiedCalls, last, mounted, docVars, richVars>>

\* the component passes another condition
ChangeCondition(p, c) ==
  /\ nEvents < MaxEvents
  /\ c # props[p].condition
  /\ nEvents' = nEvents + 1
  /\ props' = [props EXCEPT ![p].condition = c]
  /\ UNCHANGED <<fields, modified, submitted, env, rendered, result, effect, sinceChange, timer, runs,
                 setModifiedCalls, last, mounted, docVars, richVars>>

\* the document id, the user or the operation changes
ChangeEnv(e) ==
  /\ nEvents < MaxEvents
  /\ e # env
  /\ Cardinality({k \in {"id", "user", "operation"} : e[k] # env[k]}) = 1
  /\ nEvents' = nEvents + 1
  /\ env' = e
  /\ UNCHANGED <<fields, modified, submitted, props, rendered, result, effect, sinceChange, timer, runs,
                 setModifiedCalls, last, mounted, docVars, richVars>>

----------------------------------------------------------------------------
(* DocumentInfoProvider *)

DocIds == {"", "42", "43"}            \* "" : no id (a new document)

Slugs == {"pages", "posts"}

DocProps ==
  [kind : {"global", "collection"}, slug : Slugs, id : DocIds,
   versionsEnabled : BOOLEAN]

\* a key built for a collection whether it has an id or not
PreferencesKey_Always(pr) ==
  IF pr.kind = "global" THEN "global-" \o pr.slug
  ELSE "collection-" \o pr.slug \o "-" \o pr.id

\* lines 31-46: preferencesKey
PreferencesKey(pr) ==
  IF pr.kind = "global" THEN "global-" \o pr.slug
  ELSE IF Truthy(pr.id) THEN "collection-" \o pr.slug \o "-" \o pr.id
  ELSE "undefined"

\* JSON values, tagged with the getVersions call whose fetch returned them
Null == [kind |-> "null", call |-> 0, updatedAt |-> ""]
Undefined == [kind |-> "undefined", call |-> 0, updatedAt |-> ""]
Doc(n, updatedAt) == [kind |-> "doc", call |-> n, updatedAt |-> updatedAt]
List(n) == [kind |-> "list", call |-> n, updatedAt |-> ""]
Drafts(n) == [kind |-> "drafts", call |-> n, updatedAt |-> ""]

\* bodies of the published fetch: a document with updatedAt, one without, and
\* (for a collection) an empty docs array
PublishedBodies == {"docT", "doc", "empty"}

\* lines 115-119: res.json(), then docs[0] for a collection
PublishedJSON(pr, n, body) ==
  IF body = "docT" THEN Doc(n, "t1")
  ELSE IF body = "doc" THEN Doc(n, "")
  ELSE IF pr.kind = "collection" THEN Undefined
  ELSE Doc(n, "")

\* shouldFetch without the id check
ShouldFetch_Always(pr) == TRUE

\* lines 54, 103-105: shouldFetch
ShouldFetch(pr) == ~(pr.kind = "collection" /\ ~Truthy(pr.id))

\* lines 86, 92: shouldFetchVersions
ShouldFetchVersions(pr) == pr.versionsEnabled

\* lines 87-88, 93, 101: the URLs, after baseURL
VersionFetchURL(pr) ==
  IF pr.kind = "global" THEN "/globals/" \o pr.slug \o "/versions"
  ELSE "/" \o pr.slug \o "/versions"

PublishedFetchURL(pr) ==
  IF pr.kind = "global" THEN "/globals/" \o pr.slug ELSE "/" \o pr.slug

\* a condition of where.and
Cond(field, op, value) == [field |-> field, op |-> op, value |-> value]

\* lines 63-83, 95-99: published, or without a status; for a collection, of id
PublishedVersionParams(pr) ==
  <<Cond("_status", "equals published or exists false", "")>>
  \o (IF pr.kind = "collection" THEN <<Cond("id", "equals", pr.id)>> ELSE <<>>)

\* lines 56-61, 107-111: for a collection, the versions whose parent is id
VersionParams(pr) ==
  IF pr.kind = "collection" THEN <<Cond("parent", "equals", pr.id)>> ELSE <<>>

\* the newer versions asked for from the timestamp of the published document on
NewerVersionParams_Inclusive(pr, publishedJSON) ==
  VersionParams(pr)
  \o <<Cond("updatedAt", "greater_than_equal", publishedJSON.updatedAt)>>

\* lines 125-138: the version conditions and updatedAt greater_than the
\* updatedAt of the published document
NewerVersionParams(pr, publishedJSON) ==
  VersionParams(pr)
  \o <<Cond("updatedAt", "greater_than", publishedJSON.updatedAt)>>

\* the fetch a suspended call awaits (lines 115, 122, 141)
Request(c) ==
  CASE c.pc = "published" ->
         [url |-> PublishedFetchURL(c.props),
          where |-> PublishedVersionParams(c.props)]
    [] c.pc = "versions" ->
         [url |-> VersionFetchURL(c.props), where |-> VersionParams(c.props)]
    [] c.pc = "newer" ->
         [url |-> VersionFetchURL(c.props),
          where |-> NewerVersionParams(c.props, c.publishedJSON)]

\* timestamps and their order
Timestamps == {"t0", "t1", "t2"}
Rank(t) == IF t = "t0" THEN 0 ELSE IF t = "t1" THEN 1 ELSE 2

\* the query operators of the REST API on timestamps
Satisfies(op, a, b) ==
  CASE op = "greater_than" -> Rank(a) > Rank(b)
    [] op = "greater_than_equal" -> Rank(a) >= Rank(b)
    [] op = "equals" -> a = b

NoDocStep ==
  [op |-> "none", n |-> 0, fetched |-> FALSE, afterUnmount |-> FALSE,
   renders |-> {}, id |-> "", body |-> "", status |-> 0]

\* getVersions is called: lines 48-115, up to the first await
GetVersions(cs, n, inst, pr) ==
  IF ShouldFetch(pr)
  THEN Append(cs, [n |-> n, instance |-> inst, props |-> pr, pc |-> "published",
                   body |-> "", publishedJSON |-> Null, versionJSON |-> Null])
  ELSE cs

CallStep(n, pr) ==
  [NoDocStep EXCEPT !.op = "getVersions", !.n = n, !.fetched = ShouldFetch(pr)]

\* a call that does not fetch clearing the state it finds
AtCall_Reset(pr, v) == IF ShouldFetch(pr) THEN v ELSE Null

\* lines 114-152: a state of the provider when getVersions is called: the
\* setters are inside if (shouldFetch) and after the awaits, so the call sets
\* nothing
AtCall(pr, v) == v

\* the descriptors a provider is mounted with: the global, and the
\* collections of either slug
Descriptors == {pr \in DocProps : pr.kind = "global" => pr.slug = "pages"}

\* the provider mounts and its effect calls getVersions
InitDoc ==
  /\ docProps \in Descriptors
  /\ docMounted = TRUE
  /\ instance = 1
  /\ publishedDoc = Null
  /\ versions = Null
  /\ unpublishedVersions = Null
  /\ nCalls = 1
  /\ calls = GetVersions(<<>>, 1, 1, docProps)
  /\ fetchCount = (IF ShouldFetch(docProps) THEN 1 ELSE 0)
  /\ docLast = CallStep(1, docProps)
  /\ batching \in BOOLEAN
  /\ preferencesKey = PreferencesKey(docProps)
  /\ getPreferenceArg = preferencesKey

\* the id changes: getVersions is recreated and the effect calls it; the
\* preference key is computed anew and the effect of lines 159-165 calls
\* getPreference when the key changed
ChangeId(id) ==
  /\ docMounted
  /\ nCalls < MaxCalls
  /\ id # docProps.id
  /\ docProps' = [docProps EXCEPT !.id = id]
  /\ nCalls' = nCalls + 1
  /\ calls' = GetVersions(calls, nCalls + 1, instance, docProps')
  /\ fetchCount' = fetchCount + (IF ShouldFetch(docProps') THEN 1 ELSE 0)
  /\ docLast' = CallStep(nCalls + 1, docProps')
  /\ preferencesKey' = PreferencesKey(docProps')
  /\ getPreferenceArg' = (IF preferencesKey' # preferencesKey
                          THEN preferencesKey' ELSE getPreferenceArg)
  /\ publishedDoc' = AtCall(docProps', publishedDoc)
  /\ versions' = AtCall(docProps', versions)
  /\ unpublishedVersions' = AtCall(docProps', unpublishedVersions)
  /\ UNCHANGED <<docMounted, instance, batching, formVars, richVars>>

\* a consumer of the context calls getVersions
Refresh ==
  /\ docMounted
  /\ nCalls < MaxCalls
  /\ nCalls' = nCalls + 1
  /\ calls' = GetVersions(calls, nCalls + 1, instance, docProps)
  /\ fetchCount' = fetchCount + (IF ShouldFetch(docProps) THEN 1 ELSE 0)
  /\ docLast' = CallStep(nCalls + 1, docProps)
  /\ publishedDoc' = AtCall(docProps, publishedDoc)
  /\ versions' = AtCall(docProps, versions)
  /\ unpublishedVersions' = AtCall(docProps, unpublishedVersions)
  /\ UNCHANGED <<docProps, docMounted, instance, batching, preferencesKey,
                 getPreferenceArg, formVars, richVars>>

\* the context value a render hands to the consumers (lines 167-178)
ContextValue(pub, ver, unpub) ==
  [publishedDoc |-> pub, versions |-> ver, unpublishedVersions |-> unpub]

\* the renders the three setter calls of lines 149-151 cause: one at the end
\* when the root batches them, else one after each setter that changed its
\* state
Renders(pub, ver, unpub) ==
  IF batching THEN {ContextValue(pub, ver, unpub)}
  ELSE {ContextValue(pub, versions, unpublishedVersions) :
          x \in {pub} \ {publishedDoc}}
       \cup {ContextValue(pub, ver, unpublishedVersions) :
                x \in {ver} \ {versions}}
       \cup {ContextValue(pub, ver, unpub) :
                x \in {unpub} \ {unpublishedVersions}}

\* lines 149-151: the three setters; React drops a state update of an
\* instance that is no longer mounted
\* the setters called only with a value that is not null
PublishStep_SkipNull(step, c, pub, ver, unpub) ==
  LET live == docMounted /\ c.instance = instance
  IN /\ publishedDoc' = (IF live THEN pub ELSE publishedDoc)
     /\ versions' = (IF live /\ ver.kind # "null" THEN ver ELSE versions)
     /\ unpublishedVersions' = (IF live /\ unpub.kind # "null" THEN unpub
                                ELSE unpublishedVersions)
     /\ docLast' = [step EXCEPT !.op = "publish", !.n = c.n, !.id = c.props.id,
                      !.fetched = TRUE, !.afterUnmount = ~live,
                      !.renders = IF live THEN Renders(pub, ver, unpub)
                                  ELSE {}]

PublishStep(step, c, pub, ver, unpub) ==
  LET live == docMounted /\ c.instance = instance
  IN /\ publishedDoc' = (IF live THEN pub ELSE publishedDoc)
     /\ versions' = (IF live THEN ver ELSE versions)
     /\ unpublishedVersions' = (IF live THEN unpub ELSE unpublishedVersions)
     /\ docLast' = [step EXCEPT !.op = "publish", !.n = c.n, !.id = c.props.id,
                      !.fetched = TRUE, !.afterUnmount = ~live,
                      !.renders = IF live THEN Renders(pub, ver, unpub)
                                  ELSE {}]

Publish(body, c, pub, ver, unpub) ==
  PublishStep([NoDocStep EXCEPT !.body = body], c, pub, ver, unpub)

\* the published fetch resolves (lines 115-121)
ResolvePublished(i, body) ==
  LET c == calls[i]
      json == PublishedJSON(c.props, c.n, body)
  IN /\ c.pc = "published"
     /\ IF ShouldFetchVersions(c.props)
        THEN /\ calls' = [calls EXCEPT ![i].pc = "versions", ![i].body = body,
                                       ![i].publishedJSON = json]
             /\ fetchCount' = fetchCount + 1
             /\ UNCHANGED <<publishedDoc, versions, unpublishedVersions, docLast>>
        ELSE /\ calls' = RemoveAt(calls, i)
             /\ Publish(body, c, json, Null, Null)
             /\ UNCHANGED fetchCount
     /\ UNCHANGED <<docProps, docMounted, instance, nCalls, batching, preferencesKey,
                 getPreferenceArg, formVars, richVars>>

\* the version list fetch resolves (lines 122-141)
ResolveVersions(i) ==
  LET c == calls[i]
  IN /\ c.pc = "versions"
     /\ IF Truthy(c.publishedJSON.updatedAt)
        THEN /\ calls' = [calls EXCEPT ![i].pc = "newer",
                                       ![i].versionJSON = List(c.n)]
             /\ fetchCount' = fetchCount + 1
             /\ UNCHANGED <<publishedDoc, versions, unpublishedVersions, docLast>>
        ELSE /\ calls' = RemoveAt(calls, i)
             /\ Publish(c.body, c, c.publishedJSON, List(c.n), Null)
             /\ UNCHANGED fetchCount
     /\ UNCHANGED <<docProps, docMounted, instance, nCalls, batching, preferencesKey,
                 getPreferenceArg, formVars, richVars>>

\* statuses of the response to the fetch of the newer versions
Statuses == {200, 500}

\* the body of the newer versions taken whatever the status
UnpublishedVersionJSON_AnyStatus(n, status) == Drafts(n)

\* lines 52, 143-145: the body is read only from a response with status 200
UnpublishedVersionJSON(n, status) == IF status = 200 THEN Drafts(n) ELSE Null

\* the fetch of the newer versions resolves with a status (lines 141-151)
ResolveNewer(i, status) ==
  LET c == calls[i]
  IN /\ c.pc = "newer"
     /\ calls' = RemoveAt(calls, i)
     /\ LET step == [NoDocStep EXCEPT !.body = c.body, !.status = status]
        IN PublishStep(step, c, c.publishedJSON, c.versionJSON,
                       UnpublishedVersionJSON(c.n, status))
     /\ UNCHANGED <<docProps, docMounted, instance, nCalls, fetchCount, batching,
                    preferencesKey, getPreferenceArg, formVars, richVars>>

\* a fetch rejects or a body does not parse: the call ends with the rejection
Reject(i) ==
  /\ calls' = RemoveAt(calls, i)
  /\ docLast' = [NoDocStep EXCEPT !.op = "reject", !.n = calls[i].n,
                   !.fetched = TRUE]
  /\ UNCHANGED <<docProps, docMounted, instance, publishedDoc, versions,
                 unpublishedVersions, nCalls, fetchCount, batching, preferencesKey,
                 getPreferenceArg, formVars, richVars>>

\* the provider unmounts; nothing cancels the calls in flight
Unmount ==
  /\ docMounted
  /\ docMounted' = FALSE
  /\ UNCHANGED <<docProps, instance, publishedDoc, versions,
                 unpublishedVersions, calls, nCalls, fetchCount, docLast,
                 batching, preferencesKey,
                 getPreferenceArg, formVars, richVars>>

\* the provider mounts again (a new key): fresh state, and the effect calls
\* getVersions
Remount(id) ==
  /\ ~docMounted
  /\ instance < MaxMounts
  /\ nCalls < MaxCalls
  /\ docMounted' = TRUE
  /\ instance' = instance + 1
  /\ docProps' = [docProps EXCEPT !.id = id]
  /\ publishedDoc' = Null
  /\ versions' = Null
  /\ unpublishedVersions' = Null
  /\ nCalls' = nCalls + 1
  /\ calls' = GetVersions(calls, nCalls + 1, instance + 1, docProps')
  /\ fetchCount' = fetchCount + (IF ShouldFetch(docProps') THEN 1 ELSE 0)
  /\ docLast' = CallStep(nCalls + 1, docProps')
  /\ preferencesKey' = PreferencesKey(docProps')
  /\ getPreferenceArg' = preferencesKey'
  /\ UNCHANGED <<batching, formVars, richVars>>

DocNext ==
  \/ \E id \in DocIds : ChangeId(id)
  \/ Refresh
  \/ \E i \in 1..Len(calls), body \in PublishedBodies : ResolvePublished(i, body)
  \/ \E i \in 1..Len(calls) : ResolveVersions(i)
  \/ \E i \in 1..Len(calls), status \in Statuses : ResolveNewer(i, status)
  \/ \E i \in 1..Len(calls) : Reject(i)
  \/ Unmount
  \/ \E id \in DocIds : Remount(id)

----------------------------------------------------------------------------
(* RichText: documents *)

\* A node is a text leaf or an element; both are records of the same shape.
\* The text of a leaf is a sequence of characters. Paths count from 1.
Text(chars, bold) ==
  [type |-> "text", text |-> chars, bold |-> bold, children |-> <<>>]

Element(type, children) ==
  [type |-> type, text |-> <<>>, bold |-> FALSE, children |-> children]

IsText(n) == n.type = "text"

\* fields/richText/defaultValue: one empty paragraph
DefaultValue == <<Element("undefined", <<Text(<<>>, FALSE)>>)>>

\* line 452: { children: [{ text: '' }] }
EmptyBlock == Element("undefined", <<Text(<<>>, FALSE)>>)

\* elements/listTypes
listTypes == {"ul", "ol"}

\* plugins/withEnterBreakOut: editor.shouldBreakOutOnEnter
ShouldBreakOutOnEnter(element) ==
  element.type \in {"h1", "h2", "h3", "h4", "h5", "h6"}

Item(chars) == Element("li", <<Text(chars, FALSE)>>)

\* the documents a field starts with
DocHeading ==
  <<Element("h1", <<Text(<<"a", "b">>, FALSE)>>),
    Element("undefined", <<Text(<<"c">>, FALSE)>>)>>
DocMarks == <<Element("h2", <<Text(<<"a">>, TRUE), Text(<<"b">>, FALSE)>>)>>
DocList == <<Element("ul", <<Item(<<"x">>), Item(<<"a">>), Item(<<"y">>)>>)>>
DocSingle ==
  <<Element("ol", <<Item(<<"a">>)>>),
    Element("undefined", <<Text(<<"q">>, FALSE)>>)>>

Documents == {DocHeading, DocMarks, DocList, DocSingle}

\* JavaScript values of the field: a tree, a string, undefined
Tree(doc) == [kind |-> "tree", tree |-> doc, str |-> ""]
Str(s) == [kind |-> "string", tree |-> <<>>, str |-> s]
Num(s) == [kind |-> "number", tree |-> <<>>, str |-> s]
JSNull == [kind |-> "null", tree |-> <<>>, str |-> ""]
JSUndefined == [kind |-> "undefined", tree |-> <<>>, str |-> ""]

\* !v
Falsy(v) ==
  \/ v.kind \in {"undefined", "null"}
  \/ v.kind = "string" /\ v.str = ""
  \/ v.kind = "number" /\ v.str = "0"

\* JSON.stringify
RECURSIVE Chars(_)
Chars(chars) == IF chars = <<>> THEN "" ELSE Head(chars) \o Chars(Tail(chars))

RECURSIVE StringifyNode(_)
RECURSIVE Join(_)

\* an array of nodes
StringifyNodes(nodes) == "[" \o Join(nodes) \o "]"

StringifyNode(n) ==
  IF IsText(n)
  THEN "{\"text\":\"" \o Chars(n.text) \o "\""
       \o (IF n.bold THEN ",\"bold\":true" ELSE "") \o "}"
  ELSE "{" \o (IF n.type = "undefined" THEN ""
               ELSE "\"type\":\"" \o n.type \o "\",")
       \o "\"children\":" \o StringifyNodes(n.children) \o "}"

Join(nodes) ==
  IF nodes = <<>> THEN ""
  ELSE StringifyNode(Head(nodes))
       \o (IF Tail(nodes) = <<>> THEN "" ELSE ",") \o Join(Tail(nodes))

Stringify(v) ==
  CASE v.kind = "tree" -> StringifyNodes(v.tree)
    [] v.kind = "string" -> "\"" \o v.str \o "\""
    [] v.kind = "number" -> v.str
    [] v.kind = "null" -> "null"
    [] v.kind = "undefined" -> "undefined"

\* JSON.parse: the inverse of JSON.stringify on the values above; any other
\* text is not JSON and throws
ParseJSON(s) ==
  IF \E d \in Documents : StringifyNodes(d) = s
  THEN [ok |-> TRUE,
        value |-> Tree(CHOOSE d \in Documents : StringifyNodes(d) = s)]
  ELSE IF s = "null" THEN [ok |-> TRUE, value |-> JSNull]
  ELSE IF s \in {"0", "7"} THEN [ok |-> TRUE, value |-> Num(s)]
  ELSE [ok |-> FALSE, value |-> JSUndefined]

\* the documents a store holds for the field, and no document
InitialValues == {Tree(d) : d \in Documents} \cup {JSUndefined, Str("")}

\* the strings a store holds for the field: a serialized document, text that
\* is not JSON, and the JSON of null
StringValues == {Str(StringifyNodes(DocList)), Str("not valid json"), Str("null")}

\* lines 337-347: valueToRender
ValueToRender(value) ==
  LET parsed == IF value.kind = "string" /\ ParseJSON(value.str).ok
                THEN ParseJSON(value.str).value
                ELSE value
  IN IF Falsy(parsed) THEN Tree(DefaultValue) ELSE parsed

\* line 305: JSON.stringify(initialValue || '')
InitialValueKey(initialValue) ==
  Stringify(IF Falsy(initialValue) THEN Str("") ELSE initialValue)

----------------------------------------------------------------------------
(* RichText: the editor *)

NoSelection == [path |-> <<>>, offset |-> 0]

Parent(path) == SubSeq(path, 1, Len(path) - 1)
Last(path) == path[Len(path)]
NextPath(path) == [path EXCEPT ![Len(path)] = @ + 1]

\* Node.descendant
NodeAt(doc, path) ==
  IF Len(path) = 1 THEN doc[path[1]]
  ELSE IF Len(path) = 2 THEN doc[path[1]].children[path[2]]
  ELSE doc[path[1]].children[path[2]].children[path[3]]

HasNode(doc, path) ==
  /\ Len(path) \in 1..3
  /\ path[1] \in 1..Len(doc)
  /\ Len(path) >= 2 => path[2] \in 1..Len(doc[path[1]].children)
  /\ Len(path) = 3 =>
       path[3] \in 1..Len(doc[path[1]].children[path[2]].children)

\* the paths of the text leaves of a document
TextPaths(doc) ==
  UNION {UNION {IF IsText(doc[i].children[j]) THEN {<<i, j>>}
                ELSE {<<i, j, k>> :
                        k \in {m \in 1..Len(doc[i].children[j].children) :
                                 IsText(doc[i].children[j].children[m])}} :
                j \in 1..Len(doc[i].children)} :
         i \in 1..Len(doc)}

\* the points of a document: the offsets in its text leaves
Points(doc) ==
  UNION {{[path |-> p, offset |-> o] : o \in 0..Len(NodeAt(doc, p).text)} :
         p \in TextPaths(doc)}

ValidPoint(doc, pt) ==
  /\ HasNode(doc, pt.path)
  /\ Len(pt.path) >= 2
  /\ IsText(NodeAt(doc, pt.path))
  /\ pt.offset <= Len(NodeAt(doc, pt.path).text)

ReplaceAt(seq, i, nodes) ==
  SubSeq(seq, 1, i - 1) \o nodes \o SubSeq(seq, i + 1, Len(seq))

\* the node at path replaced, among its siblings, by a sequence of nodes
ReplaceNode(doc, path, nodes) ==
  IF Len(path) = 1 THEN ReplaceAt(doc, path[1], nodes)
  ELSE IF Len(path) = 2
  THEN [doc EXCEPT ![path[1]].children = ReplaceAt(@, path[2], nodes)]
  ELSE [doc EXCEPT ![path[1]].children[path[2]].children =
                     ReplaceAt(@, path[3], nodes)]

\* the children of an element on either side of a point in its leaf j
SplitAt(children, j, o) ==
  LET leaf == children[j]
      n == Len(leaf.text)
  IN IF o = 0
     THEN [left |-> SubSeq(children, 1, j - 1),
           right |-> SubSeq(children, j, Len(children))]
     ELSE IF o = n
     THEN [left |-> SubSeq(children, 1, j),
           right |-> SubSeq(children, j + 1, Len(children))]
     ELSE [left |-> SubSeq(children, 1, j - 1)
                    \o <<[leaf EXCEPT !.text = SubSeq(leaf.text, 1, o)]>>,
           right |-> <<[leaf EXCEPT !.text = SubSeq(leaf.text, o + 1, n)]>>
                     \o SubSeq(children, j + 1, Len(children))]

\* Transforms.insertNodes(editor, node) at a collapsed selection: after the
\* block when the point is its end, else where the block is split at the
\* point; the selection goes to the inserted node
InsertNodes(ed, node) ==
  LET sel == ed.selection
      elemPath == Parent(sel.path)
      elem == NodeAt(ed.children, elemPath)
      isAtEnd == /\ Last(sel.path) = Len(elem.children)
                 /\ sel.offset = Len(NodeAt(ed.children, sel.path).text)
      parts == SplitAt(elem.children, Last(sel.path), sel.offset)
      whole == isAtEnd \/ parts.left = <<>> \/ parts.right = <<>>
      at == IF isAtEnd \/ parts.left # <<>> THEN NextPath(elemPath) ELSE elemPath
      nodes == IF isAtEnd THEN <<elem, node>>
               ELSE IF parts.left = <<>> THEN <<node, elem>>
               ELSE <<[elem EXCEPT !.children = parts.left], node,
                      [elem EXCEPT !.children = parts.right]>>
  IN [ed EXCEPT !.children = ReplaceNode(ed.children, elemPath, nodes),
                !.selection = [path |-> at \o <<1>>, offset |-> 0]]

\* Transforms.splitNodes(editor) at a collapsed selection: the block is split
\* at the point; with always, also at an edge of the block, leaving an empty
\* leaf on that side
SplitNodes(ed, always) ==
  LET sel == ed.selection
      elemPath == Parent(sel.path)
      elem == NodeAt(ed.children, elemPath)
      leaf == NodeAt(ed.children, sel.path)
      parts == SplitAt(elem.children, Last(sel.path), sel.offset)
      empty == <<[leaf EXCEPT !.text = <<>>]>>
      left == IF parts.left = <<>> THEN empty ELSE parts.left
      right == IF parts.right = <<>> THEN empty ELSE parts.right
  IN IF ~always /\ (parts.left = <<>> \/ parts.right = <<>>) THEN ed
     ELSE [ed EXCEPT
             !.children = ReplaceNode(ed.children, elemPath,
                                      <<[elem EXCEPT !.children = left],
                                        [elem EXCEPT !.children = right]>>),
             !.selection = [path |-> NextPath(elemPath) \o <<1>>, offset |-> 0]]

\* editor.insertText at a collapsed selection
InsertText(ed, char) ==
  LET sel == ed.selection
      leaf == NodeAt(ed.children, sel.path)
      text == SubSeq(leaf.text, 1, sel.offset) \o <<char>>
              \o SubSeq(leaf.text, sel.offset + 1, Len(leaf.text))
  IN [ed EXCEPT
        !.children = ReplaceNode(ed.children, sel.path,
                                 <<[leaf EXCEPT !.text = text]>>),
        !.selection.offset = sel.offset + 1]

\* the list taken for what it is, without its items
UnwrapNodes_DropSiblings(ed) ==
  LET sel == ed.selection
      itemPath == Parent(sel.path)
      listPath == Parent(itemPath)
  IN IF Len(itemPath) = 2 /\ NodeAt(ed.children, listPath).type \in listTypes
     THEN [ed EXCEPT
             !.children = ReplaceNode(ed.children, listPath,
                                      <<NodeAt(ed.children, itemPath)>>),
             !.selection.path = listPath \o <<Last(sel.path)>>]
     ELSE ed

\* Transforms.unwrapNodes(editor, { match: a list, split: true }) at a
\* collapsed selection: the item that holds the selection is lifted out of its
\* list, and the list is split around it
UnwrapNodes(ed) ==
  LET sel == ed.selection
      itemPath == Parent(sel.path)
      listPath == Parent(itemPath)
      list == NodeAt(ed.children, listPath)
      j == Last(itemPath)
      n == Len(list.children)
      before == SubSeq(list.children, 1, j - 1)
      after == SubSeq(list.children, j + 1, n)
      nodes == (IF before = <<>> THEN <<>>
                ELSE <<[list EXCEPT !.children = before]>>)
               \o <<list.children[j]>>
               \o (IF after = <<>> THEN <<>>
                   ELSE <<[list EXCEPT !.children = after]>>)
      lifted == IF before = <<>> THEN listPath ELSE NextPath(listPath)
  IN IF Len(itemPath) = 2 /\ list.type \in listTypes
     THEN [ed EXCEPT
             !.children = ReplaceNode(ed.children, listPath, nodes),
             !.selection.path = lifted \o <<Last(sel.path)>>]
     ELSE ed

\* the default action of Backspace: the character before the cursor is deleted
DeleteBackward(ed) ==
  LET sel == ed.selection
      leaf == NodeAt(ed.children, sel.path)
      text == SubSeq(leaf.text, 1, sel.offset - 1)
              \o SubSeq(leaf.text, sel.offset + 1, Len(leaf.text))
  IN [ed EXCEPT
        !.children = ReplaceNode(ed.children, sel.path,
                                 <<[leaf EXCEPT !.text = text]>>),
        !.selection.offset = sel.offset - 1]

\* Enter that only ever splits a break-out element (lines 454-455)
OnEnter_SplitOnly(ed, shiftKey) ==
  LET selectedElement == NodeAt(ed.children, Parent(ed.selection.path))
  IN IF shiftKey THEN InsertText(ed, "\n")
     ELSE IF ~IsText(selectedElement) /\ ShouldBreakOutOnEnter(selectedElement)
     THEN SplitNodes(ed, FALSE)
     ELSE SplitNodes(ed, TRUE)

\* lines 438-460: onKeyDown, Enter
OnEnter(ed, shiftKey) ==
  LET sel == ed.selection
      selectedElement == NodeAt(ed.children, Parent(sel.path))
      selectedLeaf == NodeAt(ed.children, sel.path)
  IN IF shiftKey THEN InsertText(ed, "\n")
     ELSE IF ~IsText(selectedElement) /\ ShouldBreakOutOnEnter(selectedElement)
     THEN (IF IsText(selectedLeaf) /\ Len(selectedLeaf.text) = sel.offset
           THEN InsertNodes(ed, EmptyBlock)
           ELSE SplitNodes(ed, FALSE))
     ELSE SplitNodes(ed, TRUE)

\* lines 462-478: onKeyDown, Backspace, and the default action after it
OnBackspace(ed) ==
  LET sel == ed.selection
      selectedElement == NodeAt(ed.children, Parent(sel.path))
      selectedLeaf == NodeAt(ed.children, sel.path)
  IN IF ~IsText(selectedElement) /\ selectedElement.type = "li"
        /\ IsText(selectedLeaf) /\ Len(selectedLeaf.text) = 1
     THEN DeleteBackward(UnwrapNodes(ed))
     ELSE DeleteBackward(ed)

----------------------------------------------------------------------------
(* RichText: the component *)

\* the buttons and links of the toolbar and of the editor
Controls == {"toolbarButton", "toolbarLink", "editorButton", "editorRoleButton"}

\* child.tagName === 'BUTTON'
IsButton(c) == c \in {"toolbarButton", "editorButton"}

\* a control as it is rendered: no tabIndex and no disabled attribute
FreshControl == [tabIndex |-> "absent", disabled |-> "absent"]

\* setAttribute(name, value): the value is stored as a string
SetAttribute(value) == IF value = "null" THEN "null" ELSE value

\* lines 309-320: setClickableState
SetClickableState(ctrls, clickState) ==
  LET isDisabling == clickState = "disabled"
  IN [c \in Controls |->
        [tabIndex |-> SetAttribute(IF isDisabling THEN "-1" ELSE "0"),
         disabled |-> IF IsButton(c)
                      THEN SetAttribute(IF isDisabling THEN "disabled"
                                        ELSE "null")
                      ELSE ctrls[c].disabled]]

\* the DOM: a control takes the focus unless its tabIndex is negative, and a
\* button is disabled when it has a disabled attribute, whatever its value
Focusable(control) == control.tabIndex # "-1"
Disabled(control) == control.disabled # "absent"

NoRichStep ==
  [op |-> "none", shiftKey |-> FALSE, remounted |-> FALSE, threw |-> FALSE,
   onChange |-> FALSE, ref |-> "", setValue |-> FALSE]

\* what a render hands to Slate, and the document the editor then holds: Slate
\* takes a list of nodes and nothing else
Handed(value) == ValueToRender(value)

\* which object valueToRender is: the array the store holds as the value, the
\* shared defaultValue, or an array of its own that JSON.parse built
RefOf(value) ==
  IF value.kind = "tree" THEN "value"
  ELSE IF value.kind = "string" /\ ParseJSON(value.str).ok
          /\ ~Falsy(ParseJSON(value.str).value) THEN "own"
  ELSE "default"

Controlled(ed, value) ==
  IF Handed(value).kind = "tree"
  THEN [ed EXCEPT !.children = Handed(value).tree, !.ref = RefOf(value)]
  ELSE ed

\* the component is constructed: the first render returns null (line 333)
InitRich(values, modes) ==
  /\ rtInitialValue \in values
  /\ rtValue = rtInitialValue
  /\ readOnly \in modes
  /\ loaded = FALSE
  /\ initialValueKey = ""
  /\ editor = [children |-> <<>>, selection |-> NoSelection, undos |-> 0,
               ref |-> "own", marks |-> FALSE]
  /\ subtree = [key |-> "", instance |-> 0]
  /\ controls = [c \in Controls |-> FreshControl]
  /\ handed = JSUndefined
  /\ rtMounted = TRUE
  /\ nInputs = 0
  /\ nChanges = 0
  /\ rtLast = NoRichStep

\* the effects of the first render (lines 292-306) and the render they cause,
\* then the effect of lines 308-331 for the loaded component
Load ==
  /\ rtMounted /\ ~loaded
  /\ loaded' = TRUE
  /\ initialValueKey' = InitialValueKey(rtInitialValue)
  /\ subtree' = [key |-> initialValueKey', instance |-> 1]
  /\ handed' = Handed(rtValue)
  /\ editor' = Controlled(editor, rtValue)
  /\ controls' = (IF readOnly
                  THEN SetClickableState([c \in Controls |-> FreshControl],
                                         "disabled")
                  ELSE [c \in Controls |-> FreshControl])
  /\ rtLast' = [NoRichStep EXCEPT !.op = "load"]
  /\ UNCHANGED <<rtValue, rtInitialValue, readOnly, rtMounted, nInputs, nChanges,
                 formVars, docVars>>

\* setValue called for every change the editor reports
ShouldSetValue_Always(ro, ref) == TRUE

\* line 372: !readOnly && val !== defaultValue && val !== value
ShouldSetValue(ro, ref) == ~ro /\ ref # "default" /\ ref # "value"

\* lines 370-375: onChange of Slate with val = editor.children after a change
\* of the editor, setValue (lines 36-50) when the guard of line 372 holds, and
\* the render that follows. A change of the document makes editor.children an
\* array of its own; after setValue(val) that array is the value of the field
Changed(ed, op, shiftKey) ==
  LET ref == IF ed.children # editor.children THEN "own" ELSE editor.ref
      val == Tree(ed.children)
      sets == ShouldSetValue(readOnly, ref)
  IN /\ editor' = [ed EXCEPT !.undos = IF ed.children # editor.children
                                       THEN @ + 1 ELSE @,
                             !.ref = IF sets THEN "value" ELSE ref]
     /\ rtValue' = (IF sets THEN val ELSE rtValue)
     /\ modified' = (IF sets THEN TRUE ELSE modified)
     /\ setModifiedCalls' = setModifiedCalls + (IF sets /\ ~modified THEN 1 ELSE 0)
     /\ handed' = Handed(rtValue')
     /\ nInputs' = nInputs + 1
     /\ rtLast' = [NoRichStep EXCEPT !.op = op, !.shiftKey = shiftKey,
                                     !.onChange = TRUE, !.ref = ref,
                                     !.setValue = sets]
     /\ UNCHANGED <<rtInitialValue, readOnly, loaded, initialValueKey, subtree,
                    controls, rtMounted, nChanges, fields, submitted, env,
                    props, rendered, result, effect, sinceChange, timer, runs,
                    nEvents, mounted, last, docVars>>

\* the user puts the cursor at a point of the document: the selection changes
\* and Slate reports the change
Select(pt) ==
  /\ rtMounted /\ loaded /\ ~readOnly
  /\ handed.kind = "tree"
  /\ nInputs < MaxInputs
  /\ pt # editor.selection
  /\ Changed([editor EXCEPT !.selection = pt], "select", FALSE)

\* toggleLeaf at a collapsed selection: the mark is set on the editor for the
\* text typed next, and the document stays as it is
ToggleLeaf(ed) == [ed EXCEPT !.marks = ~@]

\* the user clicks the button of a leaf in the toolbar, which is not disabled
ClickLeafButton ==
  /\ rtMounted /\ loaded
  /\ handed.kind = "tree"
  /\ nInputs < MaxInputs
  /\ ~Disabled(controls["toolbarButton"])
  /\ ValidPoint(editor.children, editor.selection)
  /\ Changed(ToggleLeaf(editor), "button", FALSE)

CanType ==
  /\ rtMounted /\ loaded /\ ~readOnly
  /\ handed.kind = "tree"
  /\ nInputs < MaxInputs
  /\ ValidPoint(editor.children, editor.selection)

\* the user presses Enter
KeyEnter(shiftKey) ==
  /\ CanType
  /\ Changed(OnEnter(editor, shiftKey), "enter", shiftKey)

\* the user presses Backspace with a character before the cursor
KeyBackspace ==
  /\ CanType
  /\ editor.selection.offset >= 1
  /\ Changed(OnBackspace(editor), "backspace", FALSE)

\* the store gets another value for the field
ChangeValue(v) ==
  /\ rtMounted /\ loaded
  /\ nChanges < MaxChanges
  /\ v # rtValue
  /\ nChanges' = nChanges + 1
  /\ rtValue' = v
  /\ handed' = Handed(v)
  /\ editor' = Controlled(editor, v)
  /\ rtLast' = [NoRichStep EXCEPT !.op = "changeValue"]
  /\ UNCHANGED <<rtInitialValue, readOnly, loaded, initialValueKey, subtree,
                 controls, rtMounted, nInputs, formVars, docVars>>

\* the store gets another document: value and initialValue change; the effect
\* of lines 304-306 sets the key, and a new key mounts the div of line 350
\* anew, with new controls
ChangeInitialValue(v) ==
  LET key == InitialValueKey(v)
      remounts == key # initialValueKey
  IN /\ rtMounted /\ loaded
     /\ nChanges < MaxChanges
     /\ v # rtInitialValue
     /\ nChanges' = nChanges + 1
     /\ rtInitialValue' = v
     /\ rtValue' = v
     /\ initialValueKey' = key
     /\ subtree' = (IF remounts THEN [key |-> key, instance |-> subtree.instance + 1]
                    ELSE subtree)
     /\ controls' = (IF remounts THEN [c \in Controls |-> FreshControl]
                     ELSE controls)
     /\ handed' = Handed(v)
     /\ editor' = Controlled(editor, v)
     /\ rtLast' = [NoRichStep EXCEPT !.op = "changeInitialValue",
                                     !.remounted = remounts]
     /\ UNCHANGED <<readOnly, loaded, rtMounted, nInputs, formVars, docVars>>

\* admin.readOnly changes: the cleanup of the effect of lines 308-331 runs with
\* the values it captured, then the effect runs again
SetReadOnly(b) ==
  LET cleaned == IF loaded /\ readOnly
                 THEN SetClickableState(controls, "enabled") ELSE controls
  IN /\ rtMounted /\ loaded
     /\ nChanges < MaxChanges
     /\ b # readOnly
     /\ nChanges' = nChanges + 1
     /\ readOnly' = b
     /\ controls' = (IF loaded /\ b THEN SetClickableState(cleaned, "disabled")
                     ELSE cleaned)
     /\ rtLast' = [NoRichStep EXCEPT !.op = "setReadOnly"]
     /\ UNCHANGED <<rtValue, rtInitialValue, loaded, initialValueKey, editor,
                    subtree, handed, rtMounted, nInputs, formVars, docVars>>

\* the component unmounts: the cleanup runs; whether the refs still hold their
\* elements then depends on the React version, and without them
\* toolbarRef.current.querySelectorAll throws
RichUnmount(refsAttached) ==
  /\ rtMounted /\ loaded
  /\ rtMounted' = FALSE
  /\ controls' = (IF readOnly /\ refsAttached
                  THEN SetClickableState(controls, "enabled") ELSE controls)
  /\ rtLast' = [NoRichStep EXCEPT !.op = "unmount",
                                  !.threw = readOnly /\ ~refsAttached]
  /\ UNCHANGED <<rtValue, rtInitialValue, readOnly, loaded, initialValueKey,
                 editor, subtree, handed, nInputs, nChanges, formVars, docVars>>

RichNext ==
  \/ Load
  \/ \E pt \in Points(editor.children) : Select(pt)
  \/ ClickLeafButton
  \/ \E shiftKey \in BOOLEAN : KeyEnter(shiftKey)
  \/ KeyBackspace
  \/ \E v \in StringValues : ChangeValue(v)
  \/ \E v \in InitialValues : ChangeInitialValue(v)
  \/ \E b \in BOOLEAN : SetReadOnly(b)
  \/ \E refsAttached \in BOOLEAN : RichUnmount(refsAttached)

----------------------------------------------------------------------------

\* a rich text field that is not used
RichIdle == InitRich({JSUndefined}, {FALSE})

Next ==
  \/ \E p \in mounted, e \in Inputs, f \in BOOLEAN : SetValue(p, e, f)
  \/ Render
  \/ Tick
  \/ \E p \in mounted : ValidateFieldSync(p)
  \/ \E p \in mounted : ValidateFieldAwait(p)
  \/ \E i \in 1..Len(runs) : ValidateFieldResolved(i)
  \/ Submit

\* the form of one document
FormDoc ==
  /\ InitDoc
  /\ docProps = [kind |-> "collection", slug |-> "pages", id |-> "42",
                 versionsEnabled |-> TRUE]
  /\ batching = FALSE

Init == InitForm(Paths) /\ FormDoc /\ RichIdle

Spec == Init /\ [][Next]_vars

\* one binding whose options and context change
DepNext ==
  \/ \E p \in mounted, e \in Inputs, f \in BOOLEAN : SetValue(p, e, f)
  \/ Render
  \/ Tick
  \/ \E p \in mounted : ValidateFieldSync(p)
  \/ \E p \in mounted : ValidateFieldAwait(p)
  \/ \E i \in 1..Len(runs) : ValidateFieldResolved(i)
  \/ \E p \in mounted : ValidateFieldThrows(p)
  \/ \E i \in 1..Len(runs) : ValidateFieldRejected(i)
  \/ \E p \in mounted, v \in Validators : ChangeValidate(p, v)
  \/ \E p \in mounted, c \in Conditions : ChangeCondition(p, c)
  \/ \E i \in Ids, u \in Users, o \in Operations :
       ChangeEnv([id |-> i, user |-> u, operation |-> o])

DepInit == InitForm({"title"}) /\ FormDoc /\ RichIdle

DepSpec == DepInit /\ [][DepNext]_vars

\* the validation functions that end without a failure
Terminating ==
  {v \in Validators \ {"none"} :
     \A x \in RawValues \cup {TargetValue(e) : e \in Events} :
       ValidateFn(v, x) \notin Failures}

\* one binding whose dependencies change a bounded number of times and whose
\* validation functions terminate
LiveNext ==
  \/ \E p \in mounted, e \in Inputs : SetValue(p, e, FALSE)
  \/ Render
  \/ Tick
  \/ \E p \in mounted : ValidateFieldSync(p)
  \/ \E p \in mounted : ValidateFieldAwait(p)
  \/ \E i \in 1..Len(runs) : ValidateFieldResolved(i)
  \/ \E p \in mounted, v \in Terminating \cup {"none"} : ChangeValidate(p, v)
  \/ \E p \in mounted, c \in Conditions : ChangeCondition(p, c)
  \/ \E i \in Ids : ChangeEnv([env EXCEPT !.id = i])

\* React renders what changed, the timers of the event loop fire, and every
\* validate promise settles
Fairness ==
  /\ WF_vars(Render)
  /\ WF_vars(Tick)
  /\ WF_vars(\E p \in mounted : ValidateFieldSync(p))
  /\ WF_vars(\E p \in mounted : ValidateFieldAwait(p))
  /\ WF_vars(\E i \in 1..Len(runs) : ValidateFieldResolved(i))

LiveSpec == DepInit /\ [][LiveNext]_vars /\ Fairness

\* the provider alone
DocInit == InitForm(Paths) /\ InitDoc /\ RichIdle

DocSpec == DocInit /\ [][DocNext]_vars

\* the rich text field alone
RichInit ==
  InitForm(Paths) /\ FormDoc /\ InitRich({Tree(d) : d \in Documents}, BOOLEAN)

RichSpec == RichInit /\ [][RichNext]_vars

----------------------------------------------------------------------------
(* Claims *)

\* C1 (as stated): after setValue(v) on the binding of p, FieldState(p).value
\* is v and FieldState(p).initialValue is what it was
C1_ValueIsArgument ==
  last.op = "setValue" =>
    /\ fields[last.path].value = last.arg
    /\ fields[last.path].initialValue = InitialValue

\* C1 (amended): after setValue(v) on the binding of p, FieldState(p).value is
\* v.target.value when v is an object with a target, and v otherwise, and
\* FieldState(p).initialValue is what it was
C1_ValueIsExtracted ==
  last.op = "setValue" =>
    /\ fields[last.path].value =
         (IF HasTarget(last.arg) THEN TargetValue(last.arg) ELSE last.arg)
    /\ fields[last.path].initialValue = InitialValue

\* a second setValue, with an event-like argument, has stored its target value
C1_Witness ==
  /\ last.op = "setValue"
  /\ HasTarget(last.arg)
  /\ nEvents = 2
  /\ fields[last.path].value = "b"

\* C2: a validation result that is committed leaves the value of every field
\* as it was
C2_ValidationKeepsValue ==
  [][Len(runs') < Len(runs) =>
       \A p \in Paths : fields'[p].value = fields[p].value]_vars

\* C3: the result of a validation run that a newer run of the same field
\* superseded before it resolved is never dispatched
C3_StaleDiscarded ==
  ~(last.op = "validate" /\ last.stale /\ last.dispatched)

\* C4: no setter of the provider is called after the provider unmounted
C4_NoSetterAfterUnmount == ~docLast.afterUnmount

\* the quiet period of the validation schedule, in ms
QuietPeriod == 150

C6_DispatchOnlyOnChange ==
  [][(Len(runs') < Len(runs) /\ last'.dispatched) =>
       Classify(last'.result).valid # fields[last'.path].valid]_vars

\* C7: after a validation result other than true is committed, the binding's
\* valid is false and showError is true once the form is submitted
C7_FalsyIsInvalid ==
  (last.op = "validate" /\ last.result # "true" /\ last.dispatched) =>
    /\ Valid(fields[last.path]) = "false"
    /\ submitted => ShowError(fields[last.path], submitted)

\* C8: the showError a binding returns is (valid === false) && formSubmitted
C8_ShowError ==
  \A p \in mounted :
    result[p].showError =
      (rendered[p].valid = "false" /\ result[p].formSubmitted)

\* a binding shows its error: invalid and submitted
C8_Witness ==
  /\ result["title"].showError
  /\ result["title"].formSubmitted
  /\ rendered["title"].valid = "false"

\* C9: over all setValue calls of a form, setModified(true) is called at most
\* once
C9_SetModifiedOnce == setModifiedCalls <= 1

\* a collection descriptor without an id
NoId(pr) == pr.kind = "collection" /\ ~Truthy(pr.id)

\* C10: a getVersions call for a collection without an id suspends on no
\* fetch, issues none, and leaves publishedDoc, versions and
\* unpublishedVersions as they are: null on a provider that made no other call
C10_NoIdNoFetch ==
  /\ [](\A i \in 1..Len(calls) : ~NoId(calls[i].props))
  /\ []((nCalls = 1 /\ NoId(docProps)) =>
          /\ fetchCount = 0
          /\ publishedDoc = Null /\ versions = Null /\ unpublishedVersions = Null)
  /\ [][(nCalls' # nCalls /\ NoId(docProps')) =>
          /\ fetchCount' = fetchCount
          /\ calls' = calls
          /\ instance' = instance =>
               UNCHANGED <<publishedDoc, versions, unpublishedVersions>>]_vars

\* the id of a collection document changed to none; the call fetched nothing
C10_Witness ==
  /\ docLast.op = "getVersions"
  /\ ~docLast.fetched
  /\ NoId(docProps)
  /\ nCalls = 2
  /\ publishedDoc = Null /\ versions = Null /\ unpublishedVersions = Null

\* the getVersions calls whose fetches returned the values of a context value
FromCalls(s) ==
  {s.publishedDoc.call, s.versions.call, s.unpublishedVersions.call} \ {0}

\* the three values of the provider
Published == ContextValue(publishedDoc, versions, unpublishedVersions)

\* a JSON value without the call that fetched it
Content(v) == [kind |-> v.kind, updatedAt |-> v.updatedAt]

ContentOf(s) ==
  [publishedDoc |-> Content(s.publishedDoc), versions |-> Content(s.versions),
   unpublishedVersions |-> Content(s.unpublishedVersions)]

\* the getVersions calls in flight
InFlight(cs) == {cs[k] : k \in 1..Len(cs)}

\* C11: getVersions publishes the three values as one update after its last
\* fetch resolved: no render shows values of this call next to values of an
\* earlier call; and a call whose fetch fails changes none of the three and
\* issues no further fetch
C11_BatchedPublish ==
  /\ [](\A s \in docLast.renders : Cardinality(FromCalls(s)) <= 1)
  /\ [][(docLast' # docLast /\ docLast'.op = "reject") =>
          /\ UNCHANGED <<publishedDoc, versions, unpublishedVersions>>
          /\ fetchCount' = fetchCount
          /\ nCalls' = nCalls]_vars

\* C12: when the fetch of the newer versions answers with a status other than
\* 200, the call ends by publishing: unpublishedVersions is null, and
\* publishedDoc and versions are the ones its first two fetches returned
C12_ProbeFailureIsNoDrafts ==
  (docLast.op = "publish" /\ docLast.status \notin {0, 200}
     /\ ~docLast.afterUnmount) =>
    /\ unpublishedVersions = Null
    /\ publishedDoc = Doc(docLast.n, "t1")
    /\ versions = List(docLast.n)

\* a second call whose fetch of the newer versions answered 500 has published
C12_Witness ==
  /\ docLast.op = "publish"
  /\ docLast.status = 500
  /\ docLast.n = 2
  /\ unpublishedVersions = Null
  /\ publishedDoc = Doc(2, "t1")
  /\ versions = List(2)

\* C13: the three values are at any time those of one call, the call that
\* wrote last, and only a call that publishes (or a new mount) changes them;
\* a call that publishes after another call of the same descriptor with the
\* same responses leaves the published content as it was; a step of one call
\* leaves the other calls in flight as they were
C13_LastWriteWins ==
  /\ [](Cardinality(FromCalls(Published)) <= 1)
  /\ []((docLast.op = "publish" /\ ~docLast.afterUnmount) =>
          FromCalls(Published) \subseteq {docLast.n})
  /\ [][Published' # Published =>
          \/ docLast'.op = "publish" /\ docLast' # docLast
          \/ instance' # instance]_vars
  /\ [][(/\ docLast.op = "publish" /\ docLast'.op = "publish"
          /\ docLast'.n # docLast.n
          /\ ~docLast.afterUnmount /\ ~docLast'.afterUnmount
          /\ docLast'.id = docLast.id
          /\ docLast'.body = docLast.body
          /\ docLast'.status = docLast.status) =>
          ContentOf(Published') = ContentOf(Published)]_vars
  /\ [][Cardinality(InFlight(calls) \ InFlight(calls')) <= 1]_vars

\* the call started for id 42 was in flight when the id changed to 43, and it
\* wrote last, after the call for 43 ended
C13_Witness ==
  /\ docLast.op = "publish"
  /\ ~docLast.afterUnmount
  /\ docLast.n = 1
  /\ docLast.id = "42"
  /\ docProps.id = "43"
  /\ nCalls = 2
  /\ calls = <<>>
  /\ Published = ContextValue(Doc(1, "t1"), List(1), Drafts(1))

\* C14: the preference key is global-<slug> for a global, collection-<slug>-<id>
\* for a collection with an id and undefined for a collection without an id;
\* it is the same for the same kind, slug and id, whatever else the
\* descriptor holds, and does not change while the descriptor does not
C14_PreferenceKey ==
  /\ [](LET k == docProps.kind
            g == docProps.slug
            i == docProps.id
        IN preferencesKey =
             CASE k = "global" /\ g = "pages" -> "global-pages"
               [] k = "global" /\ g = "posts" -> "global-posts"
               [] k = "collection" /\ i = "" -> "undefined"
               [] k = "collection" /\ g = "pages" /\ i = "42" -> "collection-pages-42"
               [] k = "collection" /\ g = "pages" /\ i = "43" -> "collection-pages-43"
               [] k = "collection" /\ g = "posts" /\ i = "42" -> "collection-posts-42"
               [] k = "collection" /\ g = "posts" /\ i = "43" -> "collection-posts-43")
  /\ [](getPreferenceArg = preferencesKey)
  /\ [][docProps' = docProps => preferencesKey' = preferencesKey]_vars

\* the id of a document of a collection changed and the key with it
C14_Witness ==
  /\ docProps.kind = "collection"
  /\ docProps.slug = "posts"
  /\ docProps.id = "43"
  /\ instance = 1
  /\ docLast.op = "getVersions"
  /\ docLast.n = 2
  /\ preferencesKey = "collection-posts-43"
  /\ getPreferenceArg = "collection-posts-43"

\* where a getVersions call is: not yet called, awaiting a fetch, or ended
Pc(cs, started, n) ==
  IF \E k \in 1..Len(cs) : cs[k].n = n
  THEN (CHOOSE c \in InFlight(cs) : c.n = n).pc
  ELSE IF n <= started THEN "ended" ELSE "idle"

\* C20: a call issues its fetches one at a time in the order published
\* document, version list, newer versions, each when the one before resolved;
\* the version list only with versioning enabled; the newer versions only with
\* versioning enabled and an updatedAt on the published document, as the
\* versions of this document whose updatedAt is greater than it and not equal
\* to it; with versioning disabled versions and unpublishedVersions are
\* published as null
C20_FetchOrder ==
  /\ [][\A n \in 1..nCalls' :
          LET from == Pc(calls, nCalls, n)
              to == Pc(calls', nCalls', n)
          IN /\ from # to =>
                  \/ <<from, to>> \in {<<"idle", "published">>,
                                       <<"published", "versions">>,
                                       <<"versions", "newer">>}
                  \/ to = "ended"
             /\ (from # to /\ to # "ended") => fetchCount' = fetchCount + 1]_vars
  /\ [][fetchCount' # fetchCount =>
          \E n \in 1..nCalls' :
            /\ Pc(calls, nCalls, n) # Pc(calls', nCalls', n)
            /\ Pc(calls', nCalls', n) # "ended"]_vars
  /\ [](\A k \in 1..Len(calls) :
          LET c == calls[k]
              rq == Request(c)
          IN /\ c.pc \in {"versions", "newer"} =>
                  /\ c.props.versionsEnabled
                  /\ rq.url = VersionFetchURL(c.props)
                  /\ c.props.kind = "collection" =>
                       rq.where[1] = Cond("parent", "equals", c.props.id)
             /\ c.pc = "newer" =>
                  /\ Truthy(c.publishedJSON.updatedAt)
                  /\ LET newer == rq.where[Len(rq.where)]
                     IN /\ newer.field = "updatedAt"
                        /\ newer.value = c.publishedJSON.updatedAt
                        /\ \A t \in Timestamps :
                             Satisfies(newer.op, t, newer.value)
                               <=> Rank(t) > Rank(newer.value))
  /\ []((docLast.op = "publish" /\ ~docLast.afterUnmount
          /\ ~docProps.versionsEnabled) =>
          versions = Null /\ unpublishedVersions = Null)

\* a call for a collection document awaits its fetch of the newer versions
C20_Witness ==
  /\ Len(calls) = 1
  /\ calls[1].pc = "newer"
  /\ calls[1].props.kind = "collection"
  /\ Request(calls[1]) =
       [url |-> "/pages/versions",
        where |-> <<Cond("parent", "equals", "42"),
                    Cond("updatedAt", "greater_than", "t1")>>]
  /\ fetchCount = 3

\* C15: a value that is a string and not JSON is never handed to the editor;
\* the editor gets the default document
C15_InvalidJSONFallsBack ==
  (loaded /\ rtValue.kind = "string" /\ ~ParseJSON(rtValue.str).ok) =>
    handed = Tree(DefaultValue)

\* the cursor is at the end of the text of a break-out element of the document
AtEndOfBreakOut(ed) ==
  /\ ValidPoint(ed.children, ed.selection)
  /\ Len(ed.selection.path) = 2
  /\ LET elem == NodeAt(ed.children, Parent(ed.selection.path))
     IN /\ ShouldBreakOutOnEnter(elem)
        /\ Last(ed.selection.path) = Len(elem.children)
        /\ ed.selection.offset = Len(NodeAt(ed.children, ed.selection.path).text)

\* C16: Enter without Shift at the end of the text of a break-out element
\* adds one block after it, whose children are one empty text leaf, and leaves
\* that element and every other block as they were
C16_EnterBreaksOut ==
  [][(/\ rtLast'.op = "enter" /\ ~rtLast'.shiftKey
      /\ nInputs' = nInputs + 1
      /\ AtEndOfBreakOut(editor)) =>
       LET d == editor.children
           e == editor'.children
           k == editor.selection.path[1]
       IN /\ Len(e) = Len(d) + 1
          /\ \A i \in 1..k : e[i] = d[i]
          /\ e[k + 1].children = <<Text(<<>>, FALSE)>>
          /\ \A i \in (k + 1)..Len(d) : e[i + 1] = d[i]]_vars

\* Enter was pressed at the end of the heading of the first document
C16_Witness ==
  /\ rtLast.op = "enter"
  /\ ~rtLast.shiftKey
  /\ editor.children =
       <<DocHeading[1], Element("undefined", <<Text(<<>>, FALSE)>>),
         DocHeading[2]>>

\* the list items of a document, in document order
RECURSIVE ItemsOf(_)
ItemsOf(doc) ==
  IF doc = <<>> THEN <<>>
  ELSE (IF Head(doc).type \in listTypes THEN Head(doc).children
        ELSE IF Head(doc).type = "li" THEN <<Head(doc)>>
        ELSE <<>>) \o ItemsOf(Tail(doc))

\* the cursor is in a list item whose text is one character
InItemOfOneCharacter(ed) ==
  /\ ValidPoint(ed.children, ed.selection)
  /\ Len(ed.selection.path) = 3
  /\ ed.children[ed.selection.path[1]].type \in listTypes
  /\ LET item == NodeAt(ed.children, Parent(ed.selection.path))
     IN /\ item.type = "li"
        /\ Len(item.children) = 1
        /\ Len(item.children[1].text) = 1

C18_ReadOnlyControls ==
  (rtMounted /\ loaded) =>
    \A c \in Controls :
      IF readOnly
      THEN ~Focusable(controls[c]) /\ (IsButton(c) => Disabled(controls[c]))
      ELSE Focusable(controls[c]) /\ ~Disabled(controls[c])

\* C19: when the key of the initial value changes the editor starts anew,
\* without the selection and the undo history it had; when the key stays,
\* the subtree of the editor stays mounted
C19_EditorRecreated ==
  /\ [](rtLast.remounted =>
          editor.selection = NoSelection /\ editor.undos = 0)
  /\ [][(loaded /\ initialValueKey' = initialValueKey) =>
          subtree' = subtree]_vars

----------------------------------------------------------------------------
\* C21: a validation that resolves with an error message for a field whose
\* committed validity is invalid dispatches nothing, and the errorMessage of
\* the store stays the earlier one
C21_MessageChangeDropped ==
  [][(/\ Len(runs') < Len(runs)
      /\ TypeOf(last'.result) = "string"
      /\ fields[last'.path].valid = "false"
      /\ TypeOf(fields[last'.path].errorMessage) = "string"
      /\ last'.result # fields[last'.path].errorMessage) =>
       /\ ~last'.dispatched
       /\ fields'[last'.path].errorMessage = fields[last'.path].errorMessage]_vars

\* C22: a validation whose function throws or whose promise rejects
\* dispatches nothing and leaves the store as it was; the run ends with the
\* rejection
C22_FailureNotCaught ==
  [][(/\ last'.op = "validate"
      /\ last'.result \in Failures
      /\ (runs' # runs \/ timer' # timer)) =>
       /\ fields' = fields
       /\ ~last'.dispatched
       /\ last'.rejected]_vars

\* a validation failed for a field that an earlier validation left invalid
C22_Witness ==
  /\ last.op = "validate"
  /\ last.rejected
  /\ fields[last.path].valid = "false"
  /\ fields[last.path].errorMessage = "E1"

\* line 93: the result of validating the value the store holds now
ValidationResult(p) ==
  IF props[p].validate = "none" THEN "true"
  ELSE ValidateFn(props[p].validate, fields[p].value)

\* the validity the binding reads (line 31) equals the validity it would read
\* of the result of validating the current value (lines 95-101)
Converged(p) ==
  Valid(fields[p]) = Valid([valid |-> Classify(ValidationResult(p)).valid])

\* C23: once the dependencies of a field stop changing, the validity
\* committed for it becomes that of validate(current value) and stays so
C23_Converges == <>[](\A p \in mounted : Converged(p))

\* a field whose dependencies changed has no timer or validation pending, and
\* is committed invalid with the message of its current validate function
C23_Witness ==
  /\ nEvents = MaxEvents
  /\ ~RenderPending
  /\ runs = <<>>
  /\ timer["title"] = -1
  /\ props["title"].validate = "g"
  /\ fields["title"].value = ""
  /\ fields["title"].errorMessage = "E2"
  /\ Converged("title")

\* C24: a getVersions call of a mounted provider that does not fetch leaves
\* publishedDoc, versions and unpublishedVersions as they were and renders
\* nothing: the values of the previous document stay
C24_NoFetchKeepsState ==
  [][(/\ nCalls' = nCalls + 1
      /\ instance' = instance
      /\ docLast'.op = "getVersions"
      /\ ~docLast'.fetched) =>
       /\ Published' = Published
       /\ docLast'.renders = {}]_vars

\* the id of a collection document went from "42" to none on one provider
\* instance, and the provider still holds what it fetched for "42"
C24_Witness ==
  /\ docLast.op = "getVersions"
  /\ ~docLast.fetched
  /\ NoId(docProps)
  /\ instance = 1
  /\ nCalls = 2
  /\ publishedDoc = Doc(1, "t1")
  /\ versions = List(1)
  /\ unpublishedVersions = Drafts(1)

\* the store values of the rich text field and the modified flag of the form
RichStore == <<rtValue, modified, setModifiedCalls>>

\* C25: the editor writes to the store only by setValue from its change
\* callback, and only when the field is not read-only and the tree is neither
\* the shared default document nor the object the field holds as its value;
\* no change the editor reports in read-only mode changes the value or marks
\* the form modified
C25_OnChangeGuard ==
  /\ [][RichStore' # RichStore =>
          \/ rtLast'.op \in {"changeValue", "changeInitialValue"}
          \/ rtLast'.onChange /\ rtLast'.setValue]_vars
  /\ [][(nInputs' = nInputs + 1 /\ rtLast'.setValue) =>
          /\ ~readOnly
          /\ rtLast'.ref # "default"
          /\ rtLast'.ref # "value"
          /\ rtValue' = Tree(editor'.children)
          /\ modified']_vars
  /\ [][(nInputs' = nInputs + 1 /\ readOnly) => RichStore' = RichStore]_vars

\* the editor reported a change in read-only mode, through a button that a
\* remount left enabled, and the store kept its values
C25_Witness ==
  /\ readOnly
  /\ rtLast.op = "button"
  /\ rtLast.onChange
  /\ ~rtLast.setValue
  /\ ~modified

====
